---- MODULE Spec2Model ----
(***************************************************************************)
(* Model of src/main.py (monthly theme generation): the per-segment body   *)
(* of run_monthly_theme_generation, i.e. fetching reusable and recent      *)
(* themes, generating candidates, the similarity filter, the retry loop,   *)
(* the reuse sample and the writes to the datastore.                       *)
(*                                                                         *)
(* A subject is a sequence of one-character strings, so that lower() and   *)
(* the partial-ratio metric are computed rather than assumed.  A theme is  *)
(* a pair <<subject, description>>.                                        *)
(***************************************************************************)
EXTENDS Integers, Sequences, FiniteSets

\* ------------------------------------------------------------------ bounds

\* Most blocks in one completion of the text model (one generation call).
MaxBatch == 3

\* ------------------------------------------------------- strings and fuzz

\* str.lower() on one character of the model's alphabet (r, R, i, d, t and
\* the space).
lower_char(c) == IF c = "R" THEN "r" ELSE c

\* str.lower()
lower(s) == [k \in 1..Len(s) |-> lower_char(s[k])]

\* str.strip(): the string without its leading and trailing spaces.
RECURSIVE strip(_)
strip(s) ==
    IF s = <<>> THEN s
    ELSE IF Head(s) = " " THEN strip(Tail(s))
    ELSE IF s[Len(s)] = " " THEN strip(SubSeq(s, 1, Len(s) - 1))
    ELSE s

\* Python's s[lo:hi] (0-based, half-open, hi clipped to len(s)).
slice(s, lo, hi) ==
    LET top == IF hi < Len(s) THEN hi ELSE Len(s)
    IN  IF top <= lo THEN <<>> ELSE [k \in 1..(top - lo) |-> s[lo + k]]

\* difflib.SequenceMatcher.find_longest_match(alo, ahi, blo, bhi) without
\* junk: the longest block a[i:i+k] == b[j:j+k] inside the two ranges, the
\* one starting earliest in a, and of those the one starting earliest in b;
\* <<alo, blo, 0>> when nothing matches.  Offsets are Python's (0-based).
find_longest_match(a, b, alo, ahi, blo, bhi) ==
    LET Same(i, j, k) == \A n \in 1..k : a[i + n] = b[j + n]
        Cands == {m \in (alo..ahi) \X (blo..bhi) \X (0..(ahi - alo)) :
                     /\ m[1] + m[3] <= ahi
                     /\ m[2] + m[3] <= bhi
                     /\ Same(m[1], m[2], m[3])}
        Before(m, o) == \/ m[3] > o[3]
                        \/ m[3] = o[3] /\ m[1] < o[1]
                        \/ m[3] = o[3] /\ m[1] = o[1] /\ m[2] <= o[2]
    IN  CHOOSE m \in Cands : \A o \in Cands : Before(m, o)

\* The recursion of SequenceMatcher.get_matching_blocks: the longest match,
\* then the matches to its left and to its right, in increasing order.
RECURSIVE matching_blocks_in(_, _, _, _, _, _)
matching_blocks_in(a, b, alo, ahi, blo, bhi) ==
    LET m == find_longest_match(a, b, alo, ahi, blo, bhi)
        i == m[1]
        j == m[2]
        k == m[3]
    IN  IF k = 0 THEN <<>>
        ELSE (IF alo < i /\ blo < j
                THEN matching_blocks_in(a, b, alo, i, blo, j) ELSE <<>>)
             \o <<m>>
             \o (IF i + k < ahi /\ j + k < bhi
                   THEN matching_blocks_in(a, b, i + k, ahi, j + k, bhi) ELSE <<>>)

\* SequenceMatcher.get_matching_blocks(): the blocks and the closing
\* <<len(a), len(b), 0>> (maximal blocks are never adjacent without junk).
get_matching_blocks(a, b) ==
    matching_blocks_in(a, b, 0, Len(a), 0, Len(b)) \o << <<Len(a), Len(b), 0>> >>

RECURSIVE sum_sizes(_)
sum_sizes(blocks) ==
    IF blocks = <<>> THEN 0 ELSE Head(blocks)[3] + sum_sizes(Tail(blocks))

\* round(100 * SequenceMatcher(None, a, b).ratio()) as partial_ratio scores
\* one alignment: ratio = 2*M/T, a ratio above .995 counts as 100, and
\* round() rounds a half to the even neighbour.
ratio_percent(a, b) ==
    LET M == sum_sizes(get_matching_blocks(a, b))
        T == Len(a) + Len(b)
        q == (200 * M) \div T
        r == (200 * M) % T
    IN  IF T = 0 THEN 100
        ELSE IF 2000 * M > 995 * T THEN 100
        ELSE IF 2 * r > T THEN q + 1
        ELSE IF 2 * r = T THEN q + (q % 2)
        ELSE q

RECURSIVE max_of(_)
max_of(scores) ==
    IF Len(scores) = 1 THEN scores[1]
    ELSE LET rest == max_of(Tail(scores))
         IN  IF scores[1] >= rest THEN scores[1] ELSE rest

\* fuzz.partial_ratio(s1, s2) as the library computes it: 100 for equal strings, 0 when one is empty,
\* otherwise the best ratio of the shorter string against the window of the
\* longer one that each matching block aligns it with.
fuzz_partial_ratio(s1, s2) ==
    IF s1 = s2 THEN 100
    ELSE IF Len(s1) = 0 \/ Len(s2) = 0 THEN 0
    ELSE LET shorter == IF Len(s1) <= Len(s2) THEN s1 ELSE s2
             longer  == IF Len(s1) <= Len(s2) THEN s2 ELSE s1
             blocks  == get_matching_blocks(shorter, longer)
             score(block) ==
                 LET long_start == IF block[2] - block[1] > 0
                                     THEN block[2] - block[1] ELSE 0
                     long_end   == long_start + Len(shorter)
                 IN  ratio_percent(shorter, slice(longer, long_start, long_end))
         IN  max_of([n \in 1..Len(blocks) |-> score(blocks[n])])

\* ------------------------------------------------------------- the inputs

\* for segment in ["Pre-Retiree", "Retiree"]
SEGMENTS == <<"Pre-Retiree", "Retiree">>

\* The subject lines the text model may produce: a pair that differs in case
\* only (rid, Rid), a substring of both (id), and two subjects that score
\* below the threshold against every other (tt, dr).
Subjects ==
    { <<"r", "i", "d">>, <<"R", "i", "d">>, <<"i", "d">>,
      <<"t", "t">>, <<"d", "r">> }

\* The one description text of the model; the code only passes it on.
Desc == "description"

\* A record of the MonthlyThemes table.  Month is "recent" for a month that
\* fetch_recent_subjects asks for and "older" for any other.
Record(seg_name, subject, status, month) ==
    [Segment |-> seg_name, Subject |-> subject, Description |-> Desc,
     Status |-> status, Month |-> month]

\* The tables a run may start from: an empty one, and two that hold, for
\* either segment, records that are reusable or not, recent or not, one of
\* them with a trailing space in its subject.
InitialStores ==
    { <<>>,
      << Record("Pre-Retiree", <<"R", "i", "d">>, "pending", "recent"),
         Record("Retiree", <<"t", "t", " ">>, "sent", "recent"),
         Record("Retiree", <<"d", "r">>, "pending", "older") >>,
      << Record("Pre-Retiree", <<"t", "t">>, "pending", "older"),
         Record("Pre-Retiree", <<"i", "d">>, "pending", "recent"),
         Record("Retiree", <<"R", "i", "d">>, "selected", "older") >> }

\* The blocks of one completion: sequences of at most MaxBatch blocks, each
\* with a Subject line and a Description line; a subject may repeat.
RECURSIVE SeqsUpTo(_, _)
SeqsUpTo(S, n) ==
    IF n = 0 THEN {<<>>}
    ELSE LET shorter == SeqsUpTo(S, n - 1)
         IN  shorter \cup {Append(q, x) : q \in {p \in shorter : Len(p) = n - 1}, x \in S}

Completions == SeqsUpTo({<<s, Desc>> : s \in Subjects}, MaxBatch)

\* An HTTP response's status_code.
StatusCodes == {200, 500}

\* --------------------------------------------------------------- helpers

\* threshold=85, the default of is_similar
threshold == 85

\* fuzz.partial_ratio on the strings of the model, computed once: every
\* subject, stripped or not, lowered or not.
KnownStrings ==
    LET stored == UNION { {store[n].Subject : n \in 1..Len(store)} : store \in InitialStores }
        raw    == Subjects \cup stored \cup {strip(s) : s \in stored}
    IN  raw \cup {lower(s) : s \in raw}

Scores ==
    { <<p[1], p[2], fuzz_partial_ratio(p[1], p[2])>> : p \in KnownStrings \X KnownStrings }

partial_ratio(s1, s2) == (CHOOSE t \in Scores : t[1] = s1 /\ t[2] = s2)[3]

\* is_similar with the exact comparison `new_subject in existing_subjects`
\* in place of the fuzzy, case-insensitive one.
is_similar_exact(new_subject, existing_subjects) ==
    \E n \in 1..Len(existing_subjects) : new_subject = existing_subjects[n]

\* is_similar(new_subject, existing_subjects, threshold=85)
is_similar(new_subject, existing_subjects) ==
    \E n \in 1..Len(existing_subjects) :
        partial_ratio(lower(new_subject), lower(existing_subjects[n])) >= threshold

\* fetch_old_themes(segment): the (Subject, Description) of the segment's
\* records that are neither selected nor sent; [] when the request fails.
fetch_old_themes(store, segment_name, status_code) ==
    IF status_code # 200 THEN <<>>
    ELSE LET match(r) == /\ r.Segment = segment_name
                         /\ r.Status # "selected"
                         /\ r.Status # "sent"
             records == SelectSeq(store, match)
         IN  [n \in 1..Len(records) |-> <<records[n].Subject, records[n].Description>>]

\* fetch_recent_subjects(segment): the stripped subjects of the segment's
\* records of the recent months; [] when the request fails.
fetch_recent_subjects(store, segment_name, status_code) ==
    IF status_code # 200 THEN <<>>
    ELSE LET match(r) == r.Segment = segment_name /\ r.Month = "recent"
             records == SelectSeq(store, match)
         IN  [n \in 1..Len(records) |-> strip(records[n].Subject)]

\* line 267: extra = "Add more unconventional or creative themes this time."
extra == "Add more unconventional or creative themes this time."

\* build_prompt(segment, extra_prompt=""): the persona of the segment, the
\* fixed task text and, at its end, extra_prompt.
build_prompt(segment_name, extra_prompt) ==
    [persona |-> segment_name, extra |-> extra_prompt]

\* The prompt generate_new_themes(segment) sends: build_prompt(segment).
generate_prompt(segment_name) == build_prompt(segment_name, "")

\* The loop of generate_new_themes over the blocks of the completion: a block
\* is kept when its subject line was not seen before (exact comparison).
RECURSIVE parse_blocks(_, _)
parse_blocks(blocks, seen_subjects) ==
    IF blocks = <<>> THEN <<>>
    ELSE LET subject_line == Head(blocks)[1]
         IN  IF subject_line \notin seen_subjects
               THEN <<Head(blocks)>>
                    \o parse_blocks(Tail(blocks), seen_subjects \cup {subject_line})
               ELSE parse_blocks(Tail(blocks), seen_subjects)

\* The first filtering pass: the candidates not similar to a recent subject,
\* in their order.
first_pass(themes, subjects) ==
    LET keep(t) == ~is_similar(t[1], subjects)
    IN  SelectSeq(themes, keep)

\* The retry loop with deduped.insert(0, (s, d)) in place of append.
RECURSIVE retry_pass_front(_, _, _)
retry_pass_front(batch, accepted, subjects) ==
    IF batch = <<>> THEN <<accepted, subjects>>
    ELSE LET s == Head(batch)[1]
         IN  IF ~is_similar(s, subjects)
               THEN retry_pass_front(Tail(batch), <<Head(batch)>> \o accepted,
                                     Append(subjects, s))
               ELSE retry_pass_front(Tail(batch), accepted, subjects)

\* The for loop over one retry batch: a candidate not similar to a recent
\* subject is appended to the accepted themes and its subject to the recent
\* subjects, so the next candidate is compared with it too.
RECURSIVE retry_pass(_, _, _)
retry_pass(batch, accepted, subjects) ==
    IF batch = <<>> THEN <<accepted, subjects>>
    ELSE LET s == Head(batch)[1]
         IN  IF ~is_similar(s, subjects)
               THEN retry_pass(Tail(batch), Append(accepted, Head(batch)), Append(subjects, s))
               ELSE retry_pass(Tail(batch), accepted, subjects)

\* deduped in place of deduped[:3]
new_for_store_all(accepted) == accepted

\* deduped[:3]
new_for_store(accepted) ==
    SubSeq(accepted, 1, IF Len(accepted) < 3 THEN Len(accepted) ELSE 3)

\* random.sample(old_themes, min(2, len(old_themes))): every ordered choice
\* of that many distinct positions.
Samples(themes) ==
    LET n == Len(themes)
        k == IF n < 2 THEN n ELSE 2
    IN  IF k = 0 THEN {<<>>}
        ELSE IF k = 1 THEN {<<themes[p]>> : p \in 1..n}
        ELSE {<<themes[pq[1]], themes[pq[2]]>> :
                 pq \in {xy \in (1..n) \X (1..n) : xy[1] # xy[2]}}

\* The records store_themes_in_airtable(segment, themes) posts, one a theme.
new_records(segment_name, themes) ==
    [n \in 1..Len(themes) |->
        [Segment |-> segment_name, Subject |-> themes[n][1],
         Description |-> themes[n][2], Status |-> "pending", Month |-> "recent"]]

\* ------------------------------------------------------------- the state

VARIABLES
    pc,               \* the statement run_monthly_theme_generation is at
    seg,              \* index in SEGMENTS of the segment being processed
    airtable,         \* the records of the table when the run starts
    posted,           \* the records line 279 added for this segment
    old_themes,       \* line 255
    recent_subjects,  \* line 256, appended to at line 272
    new_themes,       \* line 258, until line 259 has read it
    deduped_themes,   \* line 259: the accepted new themes
    retries,          \* line 264
    retry,            \* line 268, until the loop of line 269 has read it
    reusable,         \* line 276
    final_set,        \* line 277
    summary_lines,    \* line 252: the segments a line was appended for
    prompts,          \* the prompts sent for this segment, first call first
    fetched_recent,   \* history: recent_subjects as line 256 fetched them
    first_kept,       \* history: deduped_themes as line 259 built it
    only_empty        \* history: no call for this segment returned a theme

vars == <<pc, seg, airtable, posted, old_themes, recent_subjects, new_themes,
          deduped_themes, retries, retry, reusable, final_set, summary_lines,
          prompts, fetched_recent, first_kept, only_empty>>

segment == SEGMENTS[seg]

\* The values the locals of one segment's processing start from.  Python
\* keeps the values of the segment before; each is assigned before it is
\* read, so the model starts every segment from the same values.
FreshLocals ==
    /\ posted' = <<>>
    /\ old_themes' = <<>>
    /\ recent_subjects' = <<>>
    /\ new_themes' = <<>>
    /\ deduped_themes' = <<>>
    /\ retries' = 0
    /\ retry' = <<>>
    /\ reusable' = <<>>
    /\ final_set' = <<>>
    /\ prompts' = <<>>
    /\ fetched_recent' = <<>>
    /\ first_kept' = <<>>
    /\ only_empty' = TRUE

Init ==
    /\ pc = "fetch_old"
    /\ seg = 1
    /\ airtable \in InitialStores
    /\ posted = <<>>
    /\ old_themes = <<>>
    /\ recent_subjects = <<>>
    /\ new_themes = <<>>
    /\ deduped_themes = <<>>
    /\ retries = 0
    /\ retry = <<>>
    /\ reusable = <<>>
    /\ final_set = <<>>
    /\ summary_lines = <<>>
    /\ prompts = <<>>
    /\ fetched_recent = <<>>
    /\ first_kept = <<>>
    /\ only_empty = TRUE

\* ----------------------------------------------------------- the actions

\* line 255: old_themes = fetch_old_themes(segment)
FetchOld ==
    /\ pc = "fetch_old"
    /\ \E status_code \in StatusCodes :
          old_themes' = fetch_old_themes(airtable, segment, status_code)
    /\ pc' = "fetch_recent"
    /\ UNCHANGED <<seg, airtable, posted, recent_subjects, new_themes,
                   deduped_themes, retries, retry, reusable, final_set,
                   summary_lines, prompts, fetched_recent, first_kept, only_empty>>

\* line 256: recent_subjects = fetch_recent_subjects(segment)
FetchRecent ==
    /\ pc = "fetch_recent"
    /\ \E status_code \in StatusCodes :
          recent_subjects' = fetch_recent_subjects(airtable, segment, status_code)
    /\ fetched_recent' = recent_subjects'
    /\ pc' = "generate"
    /\ UNCHANGED <<seg, airtable, posted, old_themes, new_themes, deduped_themes,
                   retries, retry, reusable, final_set, summary_lines, prompts,
                   first_kept, only_empty>>

\* line 258: new_themes = generate_new_themes(segment)
Generate ==
    /\ pc = "generate"
    /\ \E completion \in Completions :
          new_themes' = parse_blocks(completion, {})
    /\ prompts' = Append(prompts, generate_prompt(segment))
    /\ only_empty' = (only_empty /\ new_themes' = <<>>)
    /\ pc' = "filter"
    /\ UNCHANGED <<seg, airtable, posted, old_themes, recent_subjects,
                   deduped_themes, retries, retry, reusable, final_set,
                   summary_lines, fetched_recent, first_kept>>

\* lines 259-264: the first filtering pass, then retries = 0.  new_themes is
\* not read again.
Filter ==
    /\ pc = "filter"
    /\ deduped_themes' = first_pass(new_themes, recent_subjects)
    /\ first_kept' = deduped_themes'
    /\ new_themes' = <<>>
    /\ retries' = 0
    /\ pc' = "while"
    /\ UNCHANGED <<seg, airtable, posted, old_themes, recent_subjects, retry,
                   reusable, final_set, summary_lines, prompts, fetched_recent,
                   only_empty>>

\* line 265 as written: the name deduped is bound nowhere (line 259 binds
\* deduped_themes), so evaluating len(deduped) raises NameError, which
\* nothing catches: the run ends there.
WhileNameError ==
    /\ pc = "while"
    /\ pc' = "NameError"
    /\ UNCHANGED <<seg, airtable, posted, old_themes, recent_subjects,
                   new_themes, deduped_themes, retries, retry, reusable,
                   final_set, summary_lines, prompts, fetched_recent,
                   first_kept, only_empty>>

Next == FetchOld \/ FetchRecent \/ Generate \/ Filter \/ WhileNameError

\* The program as written.
Spec == Init /\ [][Next]_vars

\* ------------------------------------------- the loop with deduped bound

\* Lines 265-282 run only if the name deduped refers to a list.  The actions
\* below read it as the list line 259 builds (deduped_themes), the one list
\* of accepted themes in scope; they show what the retry loop, the reuse
\* sample and the writes do once line 265 no longer raises.

\* line 265: while len(deduped) < 3 and retries < 3
While ==
    /\ pc = "while"
    /\ pc' = IF Len(deduped_themes) < 3 /\ retries < 3 THEN "retry" ELSE "sample"
    /\ UNCHANGED <<seg, airtable, posted, old_themes, recent_subjects,
                   new_themes, deduped_themes, retries, retry, reusable,
                   final_set, summary_lines, prompts, fetched_recent,
                   first_kept, only_empty>>

\* lines 266-268: extra is assigned and passed to nothing; the call is
\* generate_new_themes(segment), as on line 258.
RetryGenerate ==
    /\ pc = "retry"
    /\ \E completion \in Completions :
          retry' = parse_blocks(completion, {})
    /\ prompts' = Append(prompts, generate_prompt(segment))
    /\ only_empty' = (only_empty /\ retry' = <<>>)
    /\ pc' = "retry_filter"
    /\ UNCHANGED <<seg, airtable, posted, old_themes, recent_subjects,
                   new_themes, deduped_themes, retries, reusable, final_set,
                   summary_lines, fetched_recent, first_kept>>

\* lines 269-273: the loop over the retry batch, then retries += 1.  retry
\* is not read again.
RetryFilter ==
    /\ pc = "retry_filter"
    /\ LET result == retry_pass(retry, deduped_themes, recent_subjects)
       IN  /\ deduped_themes' = result[1]
           /\ recent_subjects' = result[2]
    /\ retry' = <<>>
    /\ retries' = retries + 1
    /\ pc' = "while"
    /\ UNCHANGED <<seg, airtable, posted, old_themes, new_themes, reusable,
                   final_set, summary_lines, prompts, fetched_recent,
                   first_kept, only_empty>>

\* lines 275-277: final_set = reusable + deduped[:3]
Sample ==
    /\ pc = "sample"
    /\ reusable' \in Samples(old_themes)
    /\ final_set' = reusable' \o new_for_store(deduped_themes)
    /\ pc' = "store"
    /\ UNCHANGED <<seg, airtable, posted, old_themes, recent_subjects,
                   new_themes, deduped_themes, retries, retry, summary_lines,
                   prompts, fetched_recent, first_kept, only_empty>>

\* lines 279-280: every theme of final_set is posted as a new record (a
\* failed request is only reported), and the summary gets the segment's line.
Store ==
    /\ pc = "store"
    /\ \E status_code \in StatusCodes :
          posted' = IF status_code = 200 THEN new_records(segment, final_set) ELSE <<>>
    /\ summary_lines' = Append(summary_lines, segment)
    /\ pc' = "stored"
    /\ UNCHANGED <<seg, airtable, old_themes, recent_subjects, new_themes,
                   deduped_themes, retries, retry, reusable, final_set, prompts,
                   fetched_recent, first_kept, only_empty>>

\* line 253: the for loop takes the next segment.  The records posted for
\* the segment before stay in the table, where no later request reads them:
\* both queries ask for the records of their own segment only.
NextSegment ==
    /\ pc = "stored"
    /\ seg < Len(SEGMENTS)
    /\ seg' = seg + 1
    /\ pc' = "fetch_old"
    /\ FreshLocals
    /\ UNCHANGED <<airtable, summary_lines>>

\* line 282: notify_editor("\n\n".join(summary_lines))
Notify ==
    /\ pc = "stored"
    /\ seg = Len(SEGMENTS)
    /\ pc' = "done"
    /\ UNCHANGED <<seg, airtable, posted, old_themes, recent_subjects,
                   new_themes, deduped_themes, retries, retry, reusable,
                   final_set, summary_lines, prompts, fetched_recent,
                   first_kept, only_empty>>

NextLoop ==
    FetchOld \/ FetchRecent \/ Generate \/ Filter \/ While \/ RetryGenerate
        \/ RetryFilter \/ Sample \/ Store \/ NextSegment \/ Notify

\* The program with deduped read as deduped_themes.
SpecLoop == Init /\ [][NextLoop]_vars

\* ------------------------------------------------------------ the claims

\* Two subjects are near-duplicates: their lowered forms score at least the
\* threshold under the partial ratio.
near_duplicate(s, t) == partial_ratio(lower(s), lower(t)) >= threshold

Range(q) == {q[n] : n \in 1..Len(q)}

IsPrefix(p, q) == Len(p) <= Len(q) /\ SubSeq(q, 1, Len(p)) = p

\* sub is q with some of its entries left out, the others in their order.
RECURSIVE IsSubseq(_, _)
IsSubseq(sub, q) ==
    IF sub = <<>> THEN TRUE
    ELSE IF q = <<>> THEN FALSE
    ELSE IF Head(sub) = Head(q) THEN IsSubseq(Tail(sub), Tail(q))
    ELSE IsSubseq(sub, Tail(q))

Max(a, b) == IF a >= b THEN a ELSE b

\* The while statement of line 265 has been left for this segment.
AfterLoop == {"NameError", "sample", "store", "stored", "done"}

\* The new themes of final_set: what follows the reused ones.
new_in_final == SubSeq(final_set, Len(reusable) + 1, Len(final_set))

\* C1: the accepted new themes of a segment never hold two entries whose
\* subjects are near-duplicates of each other.
C1_NoMutualNearDuplicates ==
    \A m, n \in 1..Len(deduped_themes) :
        m # n => ~near_duplicate(deduped_themes[m][1], deduped_themes[n][1])

\* C2: no accepted new theme, of the first pass or of a retry, has a subject
\* that is a near-duplicate of a recent subject as fetched for the segment.
C2_NoAcceptedNearFetchedRecent ==
    \A n \in 1..Len(deduped_themes) : \A k \in 1..Len(fetched_recent) :
        ~near_duplicate(deduped_themes[n][1], fetched_recent[k])

\* C2, its case: recent subjects were fetched, the first pass kept a theme
\* and a retry accepted another.
C2_Witness ==
    /\ pc = "while"
    /\ retries >= 1
    /\ fetched_recent # <<>>
    /\ first_kept # <<>>
    /\ Len(deduped_themes) > Len(first_kept)

\* C3: there are never more than 3 retries, and when the first call and
\* every retry return nothing the loop is left after exactly 3 retries with
\* no accepted theme and without raising.
C3_BoundedRetriesOnEmptySource ==
    /\ retries <= 3
    /\ (only_empty /\ pc \in AfterLoop) =>
           (pc # "NameError" /\ retries = 3 /\ deduped_themes = <<>>)

\* C4: when the first pass keeps at least 3 candidates there is no retry: the
\* segment goes on to its accepted result after exactly one generation call.
C4_NoRetryWhenEnoughSurvive ==
    (pc \in AfterLoop /\ Len(first_kept) >= 3) =>
        (pc # "NameError" /\ Len(prompts) = 1 /\ retries = 0)

\* C5: the processing of a segment raises no error of its own: it never
\* ends in an error state, however few themes were accepted.
C5_NoErrorState == pc # "NameError"

\* C6: while a segment is processed the recent subjects only grow, and when
\* a retry batch is about to be filtered they hold the subject of every
\* theme accepted so far, those of the first pass included.
C6_ReferenceGrowsAndHoldsAccepted ==
    [][ /\ (pc # "stored" => IsPrefix(recent_subjects, recent_subjects'))
        /\ (pc' = "retry_filter" =>
               \A n \in 1..Len(deduped_themes') :
                   deduped_themes'[n][1] \in Range(recent_subjects')) ]_vars

\* C7: the prompt of every retry call ends with the hint of line 267, and
\* the prompt of the first call of a segment does not.
C7_RetriesCarryTheHint ==
    \A n \in 1..Len(prompts) :
        prompts[n].extra = (IF n = 1 THEN "" ELSE extra)

\* C8: the number of new themes a segment hands on for storing is at most
\* max(3, the number the first pass kept).
C8_NewThemesStoredBounded ==
    pc \in {"store", "stored", "done"} =>
        Len(new_in_final) <= Max(3, Len(first_kept))

\* C8, its case: retries took the accepted themes from below 3 to above 3,
\* and the segment is about to store.
C8_Witness ==
    /\ pc = "store"
    /\ Len(first_kept) < 3
    /\ Len(deduped_themes) > 3
    /\ Len(new_in_final) = 3

\* C9: no record written for a segment has the subject of a record the
\* table already holds for that segment, nor the subject of another record
\* written for the segment in this run.
C9_NoDuplicateSubjectWritten ==
    pc = "stored" =>
        /\ \A n \in 1..Len(posted) : \A k \in 1..Len(airtable) :
               airtable[k].Segment = segment =>
                   posted[n].Subject # airtable[k].Subject
        /\ \A m, n \in 1..Len(posted) :
               m # n => posted[m].Subject # posted[n].Subject

\* C10: the accepted new themes are in generation order: the first pass
\* keeps a subsequence of the first batch, every retry appends a subsequence
\* of its batch, nothing else changes the accepted themes, and the new
\* themes handed on are the first of them.
C10_GenerationOrder ==
    [][ /\ (pc = "filter" => IsSubseq(deduped_themes', new_themes))
        /\ (pc = "retry_filter" =>
               /\ IsPrefix(deduped_themes, deduped_themes')
               /\ IsSubseq(SubSeq(deduped_themes', Len(deduped_themes) + 1,
                                  Len(deduped_themes')), retry))
        /\ (pc \notin {"filter", "retry_filter", "stored"} =>
               deduped_themes' = deduped_themes)
        /\ (pc = "sample" => IsPrefix(new_in_final', deduped_themes)) ]_vars

\* C10, its case: the first pass kept a theme and retries appended at least
\* two more.
C10_Witness ==
    /\ pc = "store"
    /\ retries >= 2
    /\ first_kept # <<>>
    /\ Len(deduped_themes) >= Len(first_kept) + 2
    /\ Len(new_in_final) = 3

====
